---- MODULE Spec2Model ----
(***************************************************************************)
(* The session bridge of src/app/providers/SupabaseProvider.tsx: the React *)
(* provider that mirrors the auth service's session into (user, loading)   *)
(* and forwards signIn / signUp / signOut / checkEmailExists to it.        *)
(*                                                                         *)
(* The auth service (supabase) is an external collaborator.  Its answers   *)
(* are nondeterministic choices over small sets; a request and its answer  *)
(* are separate steps wherever the answer can go stale while in flight.    *)
(***************************************************************************)
EXTENDS Integers, Sequences, FiniteSets, TLC

(* ------------------------------ bounds -------------------------------- *)

\* auth changes the service emits on its own (other tab, token refresh,
\* INITIAL_SESSION), over the whole run
MaxEvents == 1

\* calls of the four public operations, over the whole run
MaxCalls == 1

(* ------------------------------ values -------------------------------- *)

NULL == "null"

Identities == {"u1", "u2"}

Emails == {"a@b.com", "nobody@example.com"}

Passwords == {"right", "wrong"}

\* the identity the service signs in for an email
IdentityOf(email) == IF email = "a@b.com" THEN "u1" ELSE "u2"

\* Session | null, as getSession and the subscription carry it
NoSession == [present |-> FALSE, user |-> NULL]

SessionOf(i) == [present |-> TRUE, user |-> i]

Sessions == {NoSession} \cup {SessionOf(i) : i \in Identities}

\* session?.user || null
UserOrNull(session) ==
    IF session.present /\ session.user # NULL THEN session.user ELSE NULL

\* error values; a message is a sequence of words
NoError == [isNull |-> TRUE, hasMessage |-> FALSE, message |-> <<>>]

Error(msg) == [isNull |-> FALSE, hasMessage |-> TRUE, message |-> msg]

ErrorNoMessage == [isNull |-> FALSE, hasMessage |-> FALSE, message |-> <<>>]

UserNotFound == <<"User", "not", "found">>

EMAIL_NOT_FOUND == Error(<<"EMAIL_NOT_FOUND">>)

INVALID_PASSWORD == Error(<<"INVALID_PASSWORD">>)

\* a slip: message === 'User not found' in place of includes
Includes_Exact(s, t) == s = t

\* String.prototype.includes on word sequences: t occurs contiguously in s
Includes(s, t) ==
    \E i \in 0..(Len(s) - Len(t)) : SubSeq(s, i + 1, i + Len(t)) = t

\* resetError?.message?.includes('User not found')
IsUserNotFound(error) ==
    /\ ~error.isNull
    /\ error.hasMessage
    /\ Includes(error.message, UserNotFound)

\* what an awaited external call settles with
Returned(error, data) == [kind |-> "return", error |-> error, data |-> data]

Thrown(error) == [kind |-> "throw", error |-> error, data |-> NULL]

NoResponse == [kind |-> "none", error |-> NoError, data |-> NULL]

ServiceErrors ==
    { Error(UserNotFound),
      Error(<<"AuthApiError:", "User", "not", "found", "for", "email">>),
      Error(<<"User", "found", "not">>),
      Error(<<"rate", "limit">>),
      ErrorNoMessage }

FetchFailed == Error(<<"fetch", "failed">>)

ThrownErrors == { FetchFailed, Error(UserNotFound) }

\* resetPasswordForEmail: { error } or a throw
ProbeResponses ==
    {Returned(e, NULL) : e \in {NoError} \cup ServiceErrors}
        \cup {Thrown(e) : e \in ThrownErrors}

\* signInWithPassword failing: { error } or a throw
SignInFailures ==
    {Returned(e, NULL) : e \in {Error(<<"Invalid", "login", "credentials">>),
                                ErrorNoMessage}}
        \cup {Thrown(FetchFailed)}

\* signUp: { error, data } or a throw
SignUpResponses ==
    {Returned(e, NULL) : e \in {NoError, ErrorNoMessage,
                                Error(<<"User", "already", "registered">>)}}
        \cup {Thrown(FetchFailed)}

\* from('default_profiles').select('id').eq('email', email).single()
LookupResponses ==
    {Returned(e, d) : e \in {NoError, Error(<<"no", "rows">>)},
                      d \in {NULL, "row"}}
        \cup {Thrown(FetchFailed)}

\* signOut: settles or throws
SignOutResponses == {Returned(NoError, NULL), Thrown(FetchFailed)}

\* the value a public operation returns
Result(error, emailExists, value) ==
    [error |-> error, emailExists |-> emailExists, value |-> value]

NoResult == Result(NoError, "undefined", "undefined")

\* runs of the mount effect on one provider instance: one, and under
\* reactStrictMode a second after the replayed cleanup
Activations == 1..2

(* ------------------------------- state -------------------------------- *)

VARIABLES
    user,        \* useState<User | null>(null)
    loading,     \* useState(true)
    phase,       \* "rendered" (effect not yet run), "mounted", "unmounted"
    strict,      \* position in StrictMode's replay: "none", "cleanup", "rerun"
    nAct,        \* runs of the mount effect so far
    fetch,       \* per activation: the getSession() promise of checkUser
    sub,         \* per activation: "none", "active", "released"
    unsub,       \* per activation: calls of subscription.unsubscribe()
    opened,      \* per activation: calls of getSession() and onAuthStateChange()
    queue,       \* per activation: events the service has emitted to its callback
    server,      \* the service's current session
    registered,  \* the emails the service knows
    call,        \* the public operation in progress
    nCalls,      \* public operations started
    nEmitted,    \* auth changes the service emitted on its own
    lastEvent,   \* session of the most recently processed subscription event
    nProcessed,  \* subscription events processed
    flips        \* times loading went from true to false

vars == << user, loading, phase, strict, nAct, fetch, sub, unsub, opened, queue, server,
           registered, call, nCalls, nEmitted, lastEvent, nProcessed, flips >>

bridge == << user, loading, flips >>

lifecycle == << phase, strict, nAct, fetch, sub, unsub, opened >>

events == << queue, lastEvent, nProcessed >>

NoFetch == [st |-> "none", session |-> NoSession, rejected |-> FALSE]

IdleCall ==
    [ op |-> "none", pc |-> "idle", email |-> NULL, password |-> NULL,
      probe |-> NoResponse, attempt |-> NoResponse,
      nProbe |-> 0, nSignIn |-> 0, nExt |-> 0,
      ret |-> NoResult, outcome |-> "pending" ]

Init ==
    /\ user = NULL
    /\ loading = TRUE
    /\ phase = "rendered"
    /\ strict = "none"
    /\ nAct = 0
    /\ fetch = [a \in Activations |-> NoFetch]
    /\ sub = [a \in Activations |-> "none"]
    /\ unsub = [a \in Activations |-> 0]
    /\ opened = [a \in Activations |-> [getSession |-> 0, onAuthStateChange |-> 0]]
    /\ queue = [a \in Activations |-> <<>>]
    /\ server \in {NoSession, SessionOf("u2")}
    /\ registered = {"a@b.com"}
    /\ call = IdleCall
    /\ nCalls = 0
    /\ nEmitted = 0
    /\ lastEvent = NoSession
    /\ nProcessed = 0
    /\ flips = 0

\* the service hands an event to every callback still subscribed
Emit(session) ==
    [a \in Activations |->
        IF sub[a] = "active" THEN Append(queue[a], session) ELSE queue[a]]

\* loading went from true to false in this step
CountFlip == flips' = IF loading /\ ~loading' THEN flips + 1 ELSE flips

(* ----------------------------- lifecycle ------------------------------ *)

\* the effect body: checkUser() is started, then the listener is registered
Effect(a) ==
    /\ nAct' = a
    /\ fetch' = [fetch EXCEPT ![a] = [st |-> "pending", session |-> NoSession, rejected |-> FALSE]]
    /\ sub' = [sub EXCEPT ![a] = "active"]
    /\ opened' = [opened EXCEPT ![a].getSession = @ + 1,
                                ![a].onAuthStateChange = @ + 1]

\* a slip: the effect returns no cleanup, the subscription is never released
Cleanup_Forgotten(a) ==
    /\ unsub' = unsub
    /\ sub' = sub
    /\ queue' = queue

\* a slip: the cleanup releases the subscription only once loading is over
Cleanup_OnlyWhenLoaded(a) ==
    /\ unsub' = IF loading THEN unsub ELSE [unsub EXCEPT ![a] = @ + 1]
    /\ sub' = IF loading THEN sub ELSE [sub EXCEPT ![a] = "released"]
    /\ queue' = IF loading THEN queue ELSE [queue EXCEPT ![a] = <<>>]

\* the effect's cleanup: subscription.unsubscribe() of its own subscription
Cleanup(a) ==
    /\ unsub' = [unsub EXCEPT ![a] = @ + 1]
    /\ sub' = [sub EXCEPT ![a] = "released"]
    /\ queue' = [queue EXCEPT ![a] = <<>>]

\* the provider mounts; under reactStrictMode (development) React then
\* replays cleanup and effect before anything else runs
Mount ==
    /\ phase = "rendered"
    /\ phase' = "mounted"
    /\ Effect(1)
    /\ strict' \in {"none", "cleanup"}
    /\ UNCHANGED << bridge, unsub, events, server, registered, call, nCalls, nEmitted >>

StrictCleanup ==
    /\ strict = "cleanup"
    /\ Cleanup(nAct)
    /\ strict' = "rerun"
    /\ UNCHANGED << bridge, phase, nAct, fetch, opened, lastEvent, nProcessed,
                    server, registered, call, nCalls, nEmitted >>

StrictRerun ==
    /\ strict = "rerun"
    /\ Effect(nAct + 1)
    /\ strict' = "none"
    /\ UNCHANGED << bridge, phase, unsub, events, server, registered, call,
                    nCalls, nEmitted >>

Unmount ==
    /\ phase = "mounted"
    /\ strict = "none"
    /\ phase' = "unmounted"
    /\ Cleanup(nAct)
    /\ UNCHANGED << bridge, strict, nAct, fetch, opened, lastEvent, nProcessed,
                    server, registered, call, nCalls, nEmitted >>

(* ----------------------- snapshot fetch (checkUser) ------------------- *)

\* the service answers getSession(): its session now, no session (an error
\* reported in the result), or a rejection
GetSessionRespond(a) ==
    /\ strict = "none"
    /\ fetch[a].st = "pending"
    /\ \E r \in {[st |-> "resolved", session |-> server, rejected |-> FALSE],
                 [st |-> "resolved", session |-> NoSession, rejected |-> FALSE],
                 [st |-> "rejected", session |-> NoSession, rejected |-> TRUE]} :
          fetch' = [fetch EXCEPT ![a] = r]
    /\ UNCHANGED << bridge, phase, strict, nAct, sub, unsub, opened, events,
                    server, registered, call, nCalls, nEmitted >>

\* a slip: setLoading(false) at the end of the try block, with no finally
CheckUser_NoFinally(f) ==
    /\ user' = IF f.st = "resolved" THEN UserOrNull(f.session) ELSE user
    /\ loading' = IF f.st = "resolved" THEN FALSE ELSE loading

\* a slip: the catch block resets the user, setUser(null)
CheckUser_ClearsOnError(f) ==
    /\ user' = IF f.st = "resolved" THEN UserOrNull(f.session) ELSE NULL
    /\ loading' = FALSE

\* checkUser after the await: try { setUser(session?.user || null) }
\* catch { log } finally { setLoading(false) }
CheckUser(f) ==
    /\ user' = IF f.st = "resolved" THEN UserOrNull(f.session) ELSE user
    /\ loading' = FALSE

\* how the promise of checkUser() ends: the catch absorbs a rejection
CheckUserEnds(f) == "settled"

CheckUserSettle(a) ==
    /\ strict = "none"
    /\ fetch[a].st \in {"resolved", "rejected"}
    /\ CheckUser(fetch[a])
    /\ CountFlip
    /\ fetch' = [fetch EXCEPT ![a].st = CheckUserEnds(fetch[a])]
    /\ UNCHANGED << phase, strict, nAct, sub, unsub, opened, events, server,
                    registered, call, nCalls, nEmitted >>

(* ------------------------ subscription events ------------------------- *)

\* the service's session changes, or is announced again, outside this bridge
ExternalAuthChange(session) ==
    /\ strict = "none"
    /\ nEmitted < MaxEvents
    /\ nEmitted' = nEmitted + 1
    /\ server' = session
    /\ queue' = Emit(session)
    /\ UNCHANGED << bridge, lifecycle, lastEvent, nProcessed, registered, call, nCalls >>

\* a slip: setLoading(!session), the spinner kept while there is no session
OnAuthStateChange_LoadingUntilSession(session) ==
    /\ user' = UserOrNull(session)
    /\ loading' = ~session.present

\* a slip: if (session) setUser(session.user), a sign-out never clears the user
OnAuthStateChange_IgnoresNull(session) ==
    /\ user' = IF session.present THEN session.user ELSE user
    /\ loading' = FALSE

\* the listener: (_event, session) => { setUser(session?.user || null);
\* setLoading(false) }
OnAuthStateChange(session) ==
    /\ user' = UserOrNull(session)
    /\ loading' = FALSE

AuthStateChange(a) ==
    /\ strict = "none"
    /\ sub[a] = "active"
    /\ queue[a] # <<>>
    /\ OnAuthStateChange(Head(queue[a]))
    /\ CountFlip
    /\ queue' = [queue EXCEPT ![a] = Tail(@)]
    /\ lastEvent' = Head(queue[a])
    /\ nProcessed' = nProcessed + 1
    /\ UNCHANGED << lifecycle, server, registered, call, nCalls, nEmitted >>

(* -------------------------- public operations ------------------------ *)

CanCall ==
    /\ phase = "mounted"
    /\ strict = "none"
    /\ call.pc \in {"idle", "done"}
    /\ nCalls < MaxCalls

Begin(op, pc, email, password) ==
    [IdleCall EXCEPT !.op = op, !.pc = pc, !.email = email, !.password = password]

Return(c, result) == [c EXCEPT !.pc = "done", !.ret = result, !.outcome = "returned"]

Throw(c, error) ==
    [c EXCEPT !.pc = "done", !.ret = Result(error, "undefined", "undefined"),
              !.outcome = "threw"]

\* ---- signIn

\* signIn is called: resetPasswordForEmail(email, ...) is awaited
SignInCall(email, password) ==
    /\ CanCall
    /\ call' = [Begin("signIn", "resetPasswordForEmail", email, password)
                    EXCEPT !.nProbe = 1]
    /\ nCalls' = nCalls + 1
    /\ UNCHANGED << bridge, lifecycle, events, server, registered, nEmitted >>

\* a slip: if (resetError) in place of the 'User not found' test
SignInAfterProbe_AnyErrorIsNotFound(c, resp) ==
    IF resp.kind = "throw"
        THEN Return([c EXCEPT !.probe = resp], Result(resp.error, "false", "undefined"))
    ELSE IF ~resp.error.isNull
        THEN Return([c EXCEPT !.probe = resp],
                    Result(EMAIL_NOT_FOUND, "false", "undefined"))
    ELSE [c EXCEPT !.probe = resp, !.pc = "signInWithPassword", !.nSignIn = @ + 1]

\* a slip: a probe that throws is tried once more
SignInAfterProbe_Retries(c, resp) ==
    IF resp.kind = "throw"
        THEN IF c.nProbe < 2
                THEN [c EXCEPT !.nProbe = @ + 1]
                ELSE Return([c EXCEPT !.probe = resp],
                            Result(resp.error, "false", "undefined"))
    ELSE IF IsUserNotFound(resp.error)
        THEN Return([c EXCEPT !.probe = resp],
                    Result(EMAIL_NOT_FOUND, "false", "undefined"))
    ELSE [c EXCEPT !.probe = resp, !.pc = "signInWithPassword", !.nSignIn = @ + 1]

\* signIn from the probe's answer up to its next await or return
SignInAfterProbe(c, resp) ==
    IF resp.kind = "throw"
        THEN Return([c EXCEPT !.probe = resp], Result(resp.error, "false", "undefined"))
    ELSE IF IsUserNotFound(resp.error)
        THEN Return([c EXCEPT !.probe = resp],
                    Result(EMAIL_NOT_FOUND, "false", "undefined"))
    ELSE [c EXCEPT !.probe = resp, !.pc = "signInWithPassword", !.nSignIn = @ + 1]

SignInProbeSettle(resp) ==
    /\ call.op = "signIn"
    /\ call.pc = "resetPasswordForEmail"
    /\ call' = SignInAfterProbe(call, resp)
    /\ UNCHANGED << bridge, lifecycle, events, server, registered, nCalls, nEmitted >>

\* the service signs the identity in and announces it to the subscribers
SignInServiceAccepts ==
    /\ call.op = "signIn"
    /\ call.pc = "signInWithPassword"
    /\ call.email \in registered
    /\ call.password = "right"
    /\ server' = SessionOf(IdentityOf(call.email))
    /\ queue' = Emit(SessionOf(IdentityOf(call.email)))
    /\ call' = [call EXCEPT !.pc = "signInSettled", !.attempt = Returned(NoError, NULL)]
    /\ UNCHANGED << bridge, lifecycle, lastEvent, nProcessed, registered, nCalls, nEmitted >>

\* the service refuses, or the request fails
SignInServiceFails(resp) ==
    /\ call.op = "signIn"
    /\ call.pc = "signInWithPassword"
    /\ call' = [call EXCEPT !.pc = "signInSettled", !.attempt = resp]
    /\ UNCHANGED << bridge, lifecycle, events, server, registered, nCalls, nEmitted >>

\* a slip: the catch block is missing, a throw of the sign-in leaves signIn
SignInAfterSignIn_NoCatch(c, resp) ==
    IF resp.kind = "throw"
        THEN Throw(c, resp.error)
    ELSE IF ~resp.error.isNull
        THEN Return(c, Result(INVALID_PASSWORD, "true", "undefined"))
    ELSE Return(c, Result(NoError, "true", "undefined"))

\* signIn from the sign-in's answer to its return
SignInAfterSignIn(c, resp) ==
    IF resp.kind = "throw"
        THEN Return(c, Result(resp.error, "false", "undefined"))
    ELSE IF ~resp.error.isNull
        THEN Return(c, Result(INVALID_PASSWORD, "true", "undefined"))
    ELSE Return(c, Result(NoError, "true", "undefined"))

\* a slip: signIn stores the signed-in user itself on success
SignInSettle_SetsUser ==
    /\ call.op = "signIn"
    /\ call.pc = "signInSettled"
    /\ call' = SignInAfterSignIn(call, call.attempt)
    /\ user' = IF call'.ret.error.isNull THEN IdentityOf(call.email) ELSE user
    /\ UNCHANGED << loading, flips, lifecycle, events, server, registered, nCalls,
                    nEmitted >>

SignInSettle ==
    /\ call.op = "signIn"
    /\ call.pc = "signInSettled"
    /\ call' = SignInAfterSignIn(call, call.attempt)
    /\ UNCHANGED << bridge, lifecycle, events, server, registered, nCalls, nEmitted >>

\* ---- signUp

SignUpCall(email) ==
    /\ CanCall
    /\ call' = [Begin("signUp", "signUp", email, NULL) EXCEPT !.nExt = 1]
    /\ nCalls' = nCalls + 1
    /\ UNCHANGED << bridge, lifecycle, events, server, registered, nEmitted >>

\* a slip: signUp maps a reported error the way signIn does
SignUpAfter_MapsError(c, resp) ==
    IF resp.kind = "throw"
        THEN Return([c EXCEPT !.attempt = resp],
                    Result(resp.error, "undefined", "undefined"))
    ELSE IF ~resp.error.isNull
        THEN Return([c EXCEPT !.attempt = resp],
                    Result(Error(<<"SIGNUP_FAILED">>), "undefined", "undefined"))
    ELSE Return([c EXCEPT !.attempt = resp], Result(NoError, "undefined", "undefined"))

\* signUp from the answer to its return
SignUpAfter(c, resp) ==
    IF resp.kind = "throw"
        THEN Return([c EXCEPT !.attempt = resp],
                    Result(resp.error, "undefined", "undefined"))
    ELSE IF ~resp.error.isNull
        THEN Return([c EXCEPT !.attempt = resp],
                    Result(resp.error, "undefined", "undefined"))
    ELSE Return([c EXCEPT !.attempt = resp], Result(NoError, "undefined", "undefined"))

SignUpSettle(resp) ==
    /\ call.op = "signUp"
    /\ call.pc = "signUp"
    /\ call' = SignUpAfter(call, resp)
    /\ registered' = IF resp.kind = "return" /\ resp.error.isNull
                        THEN registered \cup {call.email} ELSE registered
    /\ UNCHANGED << bridge, lifecycle, events, server, nCalls, nEmitted >>

\* ---- signOut

SignOutCall ==
    /\ CanCall
    /\ call' = [Begin("signOut", "signOut", NULL, NULL) EXCEPT !.nExt = 1]
    /\ nCalls' = nCalls + 1
    /\ UNCHANGED << bridge, lifecycle, events, server, registered, nEmitted >>

\* signOut after the await: nothing is caught and nothing is returned
SignOutAfter(c, resp) ==
    IF resp.kind = "throw"
        THEN Throw([c EXCEPT !.attempt = resp], resp.error)
        ELSE Return([c EXCEPT !.attempt = resp], NoResult)

\* a slip: signOut clears the user itself once the service has answered
SignOutSettle_ClearsUser(resp) ==
    /\ call.op = "signOut"
    /\ call.pc = "signOut"
    /\ call' = SignOutAfter(call, resp)
    /\ server' = IF resp.kind = "return" THEN NoSession ELSE server
    /\ queue' = IF resp.kind = "return" THEN Emit(NoSession) ELSE queue
    /\ user' = IF resp.kind = "return" THEN NULL ELSE user
    /\ UNCHANGED << loading, flips, lifecycle, lastEvent, nProcessed, registered,
                    nCalls, nEmitted >>

\* the service ends the session and announces it, or the request throws
SignOutSettle(resp) ==
    /\ call.op = "signOut"
    /\ call.pc = "signOut"
    /\ call' = SignOutAfter(call, resp)
    /\ server' = IF resp.kind = "return" THEN NoSession ELSE server
    /\ queue' = IF resp.kind = "return" THEN Emit(NoSession) ELSE queue
    /\ UNCHANGED << bridge, lifecycle, lastEvent, nProcessed, registered, nCalls, nEmitted >>

\* ---- checkEmailExists

CheckEmailExistsCall(email) ==
    /\ CanCall
    /\ call' = [Begin("checkEmailExists", "lookup", email, NULL) EXCEPT !.nExt = 1]
    /\ nCalls' = nCalls + 1
    /\ UNCHANGED << bridge, lifecycle, events, server, registered, nEmitted >>

\* a slip: the if (error) branch is missing
CheckEmailExistsAfter_NoErrorCheck(c, resp) ==
    IF resp.kind = "throw"
        THEN Return([c EXCEPT !.attempt = resp], Result(NoError, "undefined", "false"))
    ELSE Return([c EXCEPT !.attempt = resp],
                Result(NoError, "undefined", IF resp.data # NULL THEN "true" ELSE "false"))

\* checkEmailExists from the lookup's answer to its return
CheckEmailExistsAfter(c, resp) ==
    IF resp.kind = "throw"
        THEN Return([c EXCEPT !.attempt = resp], Result(NoError, "undefined", "false"))
    ELSE IF ~resp.error.isNull
        THEN Return([c EXCEPT !.attempt = resp], Result(NoError, "undefined", "false"))
    ELSE Return([c EXCEPT !.attempt = resp],
                Result(NoError, "undefined", IF resp.data # NULL THEN "true" ELSE "false"))

CheckEmailExistsSettle(resp) ==
    /\ call.op = "checkEmailExists"
    /\ call.pc = "lookup"
    /\ call' = CheckEmailExistsAfter(call, resp)
    /\ UNCHANGED << bridge, lifecycle, events, server, registered, nCalls, nEmitted >>

(* --------------------------- specification ---------------------------- *)

Next ==
    \/ Mount
    \/ StrictCleanup
    \/ StrictRerun
    \/ Unmount
    \/ \E a \in Activations : GetSessionRespond(a)
    \/ \E a \in Activations : CheckUserSettle(a)
    \/ \E s \in Sessions : ExternalAuthChange(s)
    \/ \E a \in Activations : AuthStateChange(a)
    \/ \E e \in Emails, p \in Passwords : SignInCall(e, p)
    \/ \E r \in ProbeResponses : SignInProbeSettle(r)
    \/ SignInServiceAccepts
    \/ \E r \in SignInFailures : SignInServiceFails(r)
    \/ SignInSettle
    \/ \E e \in Emails : SignUpCall(e)
    \/ \E r \in SignUpResponses : SignUpSettle(r)
    \/ SignOutCall
    \/ \E r \in SignOutResponses : SignOutSettle(r)
    \/ \E e \in Emails : CheckEmailExistsCall(e)
    \/ \E r \in LookupResponses : CheckEmailExistsSettle(r)

Spec == Init /\ [][Next]_vars

(* ------------------------------ claims -------------------------------- *)


Deactivated(a) ==
    \/ a < nAct
    \/ a = nAct /\ (phase = "unmounted" \/ strict = "rerun")

SnapshotSettled == nAct >= 1 /\ \A a \in 1..nAct : fetch[a].st = "settled"

\* C1: in every activation loading starts true, goes from true to false
\* exactly once (as soon as a snapshot fetch has settled or an event has been
\* processed) and is never true again, whatever the order of settlements and
\* events.
C1_LoadingFalseOnce ==
    /\ (phase = "rendered" \/ strict # "none") => loading
    /\ flips <= 1
    /\ loading <=> (flips = 0)
    /\ (nProcessed > 0 \/ \E a \in Activations : fetch[a].st = "settled") => ~loading

C1_Witness ==
    /\ ~loading
    /\ flips = 1
    /\ nAct = 2
    /\ nProcessed >= 1
    /\ \A a \in Activations : fetch[a].st = "settled"

\* C2: the step that processes a subscription event carrying identity I (or
\* no session) leaves user = I (null for no session) and loading = false.
C2_EventSetsIdentity ==
    [][ nProcessed' # nProcessed =>
          /\ \E a \in Activations :
                sub[a] = "active" /\ queue[a] # <<>> /\ lastEvent' = Head(queue[a])
          /\ user' = IF lastEvent'.present THEN lastEvent'.user ELSE NULL
          /\ loading' = FALSE ]_vars

C2_Witness ==
    /\ nProcessed >= 1
    /\ ~lastEvent.present
    /\ user = NULL
    /\ ~loading
    /\ \E a \in Activations : fetch[a].st = "settled" /\ fetch[a].session.present

\* C3: once the snapshot fetch has settled and at least one subscription
\* event has been processed, user is the identity of the most recently
\* processed event.
C3_LastEventWins ==
    (SnapshotSettled /\ nProcessed >= 1)
        => user = (IF lastEvent.present THEN lastEvent.user ELSE NULL)

\* the answers of the probe whose message contains 'User not found'
SaysUserNotFound(resp) ==
    /\ resp.kind = "return"
    /\ resp.error.hasMessage
    /\ \E i \in 1..(Len(resp.error.message) - 2) :
          /\ resp.error.message[i] = "User"
          /\ resp.error.message[i + 1] = "not"
          /\ resp.error.message[i + 2] = "found"

\* C4: a signIn whose probe returned an error containing 'User not found'
\* returns { error: EMAIL_NOT_FOUND, emailExists: false } and never invokes
\* signInWithPassword.
C4_UnregisteredEmail ==
    (call.op = "signIn" /\ SaysUserNotFound(call.probe)) =>
        /\ call.pc = "done"
        /\ call.outcome = "returned"
        /\ call.ret = Result(EMAIL_NOT_FOUND, "false", "undefined")
        /\ call.nSignIn = 0

C4_Witness ==
    /\ call.op = "signIn"
    /\ call.pc = "done"
    /\ call.email \notin registered
    /\ call.probe.kind = "return"
    /\ Len(call.probe.error.message) > 3
    /\ call.ret.error = EMAIL_NOT_FOUND

\* the sign-in was attempted and failed, by a reported error or by a throw
SignInFailed(c) ==
    /\ c.op = "signIn"
    /\ c.pc = "done"
    /\ c.nSignIn = 1
    /\ (c.attempt.kind = "throw" \/ ~c.attempt.error.isNull)

\* C5: whenever the probe deemed the email to exist and the sign-in then
\* failed for any reason, signIn returns { error: INVALID_PASSWORD,
\* emailExists: true }.
C5_AnyFailureIsInvalidPassword ==
    SignInFailed(call) => call.ret = Result(INVALID_PASSWORD, "true", "undefined")

\* the service has accepted the sign-in of the current signIn call
SignInAccepted(c) ==
    /\ c.op = "signIn"
    /\ c.pc \in {"signInSettled", "done"}
    /\ c.attempt = Returned(NoError, NULL)
    /\ c.email \in registered
    /\ c.password = "right"

\* this step processes a subscription event carrying identity i
EventCarries(i) == nProcessed' = nProcessed + 1 /\ lastEvent' = SessionOf(i)

\* this step is checkUser resuming with a snapshot carrying identity i
SnapshotCarries(i) ==
    \E a \in Activations :
        /\ fetch[a].st = "resolved"
        /\ fetch'[a].st = "settled"
        /\ fetch[a].session = SessionOf(i)

\* signIn's part of C6: the result of an accepted sign-in, and no step of
\* signIn changes user
SignInLeavesIdentity ==
    /\ (SignInAccepted(call') /\ call'.pc = "done")
          => (call'.outcome = "returned"
                /\ call'.ret = Result(NoError, "true", "undefined"))
    /\ (call' # call /\ call'.op = "signIn") => user' = user

\* C6 as stated: signIn with a registered email and the correct password
\* returns { error: null, emailExists: true } without changing user, and
\* user becomes the signed-in identity only in a step that processes a
\* subscription event carrying it.
C6_OnlyBySubscription ==
    [][ /\ SignInLeavesIdentity
        /\ (SignInAccepted(call) /\ user' # user /\ user' = IdentityOf(call.email))
              => EventCarries(user') ]_vars

\* C6 amended: ... user becomes the signed-in identity only in a step that
\* processes a subscription event carrying it, or in which a snapshot fetch
\* still in flight settles with it; and processing such an event makes user
\* the signed-in identity.
C6_BySubscriptionOrSnapshot ==
    [][ /\ SignInLeavesIdentity
        /\ (SignInAccepted(call) /\ user' # user /\ user' = IdentityOf(call.email))
              => (EventCarries(user') \/ SnapshotCarries(user'))
        /\ (SignInAccepted(call) /\ EventCarries(IdentityOf(call.email)))
              => user' = IdentityOf(call.email) ]_vars

C6_Witness ==
    /\ SignInAccepted(call)
    /\ call.pc = "done"
    /\ call.ret = Result(NoError, "true", "undefined")
    /\ nProcessed >= 1
    /\ lastEvent = SessionOf(IdentityOf(call.email))
    /\ user = IdentityOf(call.email)
    /\ SnapshotSettled
    /\ \A a \in Activations : fetch[a].session # SessionOf(IdentityOf(call.email))

\* C7: the cleanup of an activation calls unsubscribe exactly once, on every
\* deactivation path, also when the snapshot fetch has not settled or has
\* failed; an activation not yet cleaned up has not been unsubscribed.
C7_UnsubscribedOnce ==
    \A a \in Activations :
        /\ Deactivated(a) => (unsub[a] = 1 /\ sub[a] = "released")
        /\ ~Deactivated(a) => unsub[a] = 0

C7_Witness ==
    /\ phase = "unmounted"
    /\ nAct = 2
    /\ unsub = [a \in Activations |-> 1]
    /\ fetch[1].st = "pending"
    /\ fetch[2].st = "rejected"
    /\ loading

\* this step is checkUser resuming after its await
SnapshotSettles ==
    \E a \in Activations :
        fetch[a].st \in {"resolved", "rejected"} /\ fetch'[a].st = "settled"

\* C8: user and loading change only when a snapshot fetch settles or a
\* subscription event is processed; no step of signIn, signUp, signOut or
\* checkEmailExists changes them.
C8_OnlyFetchAndEventsMutate ==
    [][ /\ (user' # user \/ loading' # loading)
              => (SnapshotSettles \/ nProcessed' = nProcessed + 1)
        /\ (call' # call) => (user' = user /\ loading' = loading) ]_vars

C8_Witness ==
    /\ call.op = "signOut"
    /\ call.pc = "done"
    /\ call.outcome = "returned"
    /\ server = NoSession
    /\ user # NULL
    /\ ~loading

\* C9: checkEmailExists returns true exactly when the lookup returned a row
\* and no error; it returns false for no row, for a reported error and for a
\* throw, and never throws.
C9_CheckEmailExists ==
    (call.op = "checkEmailExists" /\ call.pc = "done") =>
        /\ call.outcome = "returned"
        /\ call.ret.value \in {"true", "false"}
        /\ call.ret.value = "true" <=>
              /\ call.attempt.kind = "return"
              /\ call.attempt.error.isNull
              /\ call.attempt.data = "row"

C9_Witness ==
    /\ call.op = "checkEmailExists"
    /\ call.pc = "done"
    /\ call.attempt.kind = "throw"
    /\ call.outcome = "returned"
    /\ call.ret.value = "false"

\* C10: signUp never throws; it returns { error: E } with E the very error
\* the sign-up operation reported or threw, and { error: null } on success.
C10_SignUpPassesError ==
    (call.op = "signUp" /\ call.pc = "done") =>
        /\ call.outcome = "returned"
        /\ call.ret = Result(call.attempt.error, "undefined", "undefined")
        /\ (call.attempt.kind = "return" /\ call.attempt.error.isNull)
              => call.ret.error = NoError

C10_Witness ==
    /\ call.op = "signUp"
    /\ call.pc = "done"
    /\ call.attempt = Returned(Error(<<"User", "already", "registered">>), NULL)
    /\ call.ret.error = Error(<<"User", "already", "registered">>)

FailureHandled(a) == fetch[a].st = "rejected" /\ fetch'[a].st # "rejected"

\* C12 as stated: a failed snapshot fetch is absorbed: nothing is propagated,
\* loading becomes false and user is absent once the failure is handled.
C12_FailureLeavesAbsent ==
    [][ \A a \in Activations : FailureHandled(a) =>
            /\ fetch'[a].st = "settled"
            /\ loading' = FALSE
            /\ user' = NULL ]_vars

\* C12 amended: a failed snapshot fetch is absorbed: nothing is propagated,
\* loading becomes false and user is left as it was (absent unless an event
\* or another snapshot has set it before).
C12_FailureLeavesUser ==
    [][ \A a \in Activations : FailureHandled(a) =>
            /\ fetch'[a].st = "settled"
            /\ loading' = FALSE
            /\ user' = user
            /\ (nProcessed = 0 /\ \A b \in Activations : fetch[b].st # "settled")
                  => user' = NULL ]_vars

C12_Witness ==
    \E a \in Activations :
        /\ fetch[a].st = "settled"
        /\ fetch[a].rejected
        /\ nProcessed = 1
        /\ lastEvent.present
        /\ user = lastEvent.user
        /\ ~loading
        /\ \A b \in Activations \ {a} : fetch[b].st \in {"none", "pending"}

\* C13: once an activation has been deactivated nothing it started changes
\* user or loading, also when its snapshot fetch settles only after its
\* subscription has been released.
C13_NoChangeAfterDeactivation ==
    [][ \A a \in Activations :
            (Deactivated(a) /\ fetch[a].st # fetch'[a].st)
                => (user' = user /\ loading' = loading) ]_vars

\* C14: every external call is made once and never retried: each activation
\* calls getSession once and opens one subscription; a signIn call makes one
\* probe, which has returned before any sign-in attempt, and at most one
\* sign-in attempt; signUp, signOut and checkEmailExists make one call each.
C14_NoRetry ==
    /\ \A a \in Activations :
          opened[a] = IF a <= nAct
                         THEN [getSession |-> 1, onAuthStateChange |-> 1]
                         ELSE [getSession |-> 0, onAuthStateChange |-> 0]
    /\ call.op = "signIn" =>
          /\ call.nProbe = 1
          /\ call.nSignIn <= 1
          /\ call.nExt = 0
          /\ call.nSignIn = 1 => call.probe.kind = "return"
          /\ call.nSignIn = 0 => call.attempt = NoResponse
    /\ call.op \in {"signUp", "signOut", "checkEmailExists"} =>
          (call.nExt = 1 /\ call.nProbe = 0 /\ call.nSignIn = 0)
    /\ call.op = "none" => (call.nExt = 0 /\ call.nProbe = 0 /\ call.nSignIn = 0)

C14_Witness ==
    /\ nAct = 2
    /\ call.op = "signIn"
    /\ call.pc = "done"
    /\ call.probe.kind = "return"
    /\ ~call.probe.error.isNull
    /\ call.attempt.kind = "throw"
    /\ call.nProbe = 1
    /\ call.nSignIn = 1

\* C15: in every reachable state at most one subscription of the provider
\* is active: an activation's subscription is released before the next
\* activation opens one.
C15_OneActiveSubscription ==
    /\ Cardinality({a \in Activations : sub[a] = "active"}) <= 1
    /\ \A a \in Activations : (sub[a] = "active") <=> (a = nAct /\ ~Deactivated(a))

C15_Witness ==
    /\ nAct = 2
    /\ sub[1] = "released"
    /\ sub[2] = "active"
    /\ nProcessed >= 1

\* C16: signIn calls signInWithPassword if and only if the probe returned
\* without throwing and without an error whose message contains 'User not
\* found'; any other probe error counts as "email exists".
C16_SignInAttemptedIff ==
    call.op = "signIn" =>
        /\ call.pc = "resetPasswordForEmail" => call.nSignIn = 0
        /\ call.pc # "resetPasswordForEmail" =>
              (call.nSignIn = 1 <=>
                  (call.probe.kind = "return" /\ ~SaysUserNotFound(call.probe)))

C16_Witness ==
    /\ call.op = "signIn"
    /\ call.probe = Returned(Error(<<"rate", "limit">>), NULL)
    /\ call.nSignIn = 1
    /\ call.email \notin registered
    /\ call.pc = "done"

====
